---- MODULE Spec2Model ----
(***************************************************************************)
(* Model of the map generator of mini-metro-maps (scripts/map): the        *)
(* line-oriented parser (parser.py), the network classes (classes.py),     *)
(* the naptan lookup (naptan.py) and the AMPL writer (ampl.py), run in     *)
(* the order of generate_map.main.                                         *)
(*                                                                         *)
(* A Python str is modelled as a sequence of chunks.  Every blank,         *)
(* newline and punctuation character (comma, colon, hash, double quote,    *)
(* underscore, bracket, equals sign, semicolon, percent) is a chunk of its *)
(* own; between two of them a maximal run of other characters is one       *)
(* chunk, except that a keyword which the code tests with startswith or    *)
(* rewrites with replace is split from what follows it.  So "A, B" is      *)
(* <<"A", ",", " ", "B">> and "lines" is <<"line", "s">>, and two strings  *)
(* are equal exactly when their chunk sequences are.  The string           *)
(* operations below are the Python ones, computed on chunks.               *)
(***************************************************************************)
EXTENDS Integers, Sequences, FiniteSets, TLC

VARIABLES
    pc,                     \* position of generate_map.main
    lines,                  \* parser.lines: line name -> Line, in insertion order
    constraint_text_lines,  \* parser.constraint_text_lines
    input_line_number,      \* parser.input_line_number
    current_line,           \* read_data's local current_line (<<>> is None)
    input_file_line,        \* read_data's local input_file_line, after sanitize_line
    error,                  \* the exception that ended the run (NoError if none)
    ampl_mod_file,          \* ampl.ampl_mod_file: "None" or "file"
    ampl_dat_file,          \* ampl.ampl_dat_file: "None" or "file"
    mod_stream,             \* state of the stream behind model.mod
    dat_stream,             \* state of the stream behind data.dat
    mod_text,               \* what has been written to model.mod, one entry per write
    constraint_index,       \* position of the for loop of ampl.process_constraints
    io_faults,              \* the I/O calls that the file system has failed so far
    previous_run            \* how an earlier call of write_ampl_files ended (<<>> if none)

vars == <<pc, lines, constraint_text_lines, input_line_number, current_line,
          input_file_line, error, ampl_mod_file, ampl_dat_file, mod_stream,
          dat_stream, mod_text, constraint_index, io_faults, previous_run>>

\* Number of raw input lines the input file may hold.
MaxInputLines == 5

\* Number of constraint statements the input file may hold.
MaxConstraints == 2

\* Number of raw input lines of the input files that declare two Lines.
MaxOutputLines == 6

(***************************************************************************)
(* Python str operations, on chunks.                                       *)
(***************************************************************************)
Q == "\""

IsSpace(c) == c \in {" ", "\n"}

SetMin(S) == CHOOSE x \in S : \A y \in S : x <= y

SetMax(S) == CHOOSE x \in S : \A y \in S : x >= y

\* s.index(c, start), 1-based; 0 stands for the ValueError of a missing c.
IndexFrom(s, c, start) ==
    LET hits == {i \in start..Len(s) : s[i] = c}
    IN  IF hits = {} THEN 0 ELSE SetMin(hits)

Index(s, c) == IndexFrom(s, c, 1)

\* s.strip()
Strip(s) ==
    LET keep == {i \in 1..Len(s) : ~IsSpace(s[i])}
    IN  IF keep = {} THEN <<>> ELSE SubSeq(s, SetMin(keep), SetMax(keep))

\* s.split(): the maximal runs of non-blank chunks.
RECURSIVE Split(_)
Split(s) ==
    LET keep == {i \in 1..Len(s) : ~IsSpace(s[i])}
    IN  IF keep = {} THEN <<>>
        ELSE LET a == SetMin(keep)
                 blanks == {i \in a..Len(s) : IsSpace(s[i])}
                 b == IF blanks = {} THEN Len(s) + 1 ELSE SetMin(blanks)
             IN  <<SubSeq(s, a, b - 1)>> \o Split(SubSeq(s, b, Len(s)))

\* s.split(d): every piece between two d, empty pieces kept.
RECURSIVE SplitOn(_, _)
SplitOn(s, d) ==
    LET i == Index(s, d)
    IN  IF i = 0 THEN <<s>>
        ELSE <<SubSeq(s, 1, i - 1)>> \o SplitOn(SubSeq(s, i + 1, Len(s)), d)

\* s.startswith(kw), for a keyword chunk kw.
StartsWith(s, kw) == Len(s) >= 1 /\ s[1] = kw

\* s.replace(old, new), for a keyword chunk old.
Replace(s, old, new) == [i \in 1..Len(s) |-> IF s[i] = old THEN new ELSE s[i]]

\* [f(x) for x in xs]
StripAll(xs) == [i \in 1..Len(xs) |-> Strip(xs[i])]

\* int(token): the decimal tokens of the inputs and their values.
IntTokens == {<<"0">>, <<"1">>, <<"2">>}

IntValue(t) == CASE t = <<"0">> -> 0 [] t = <<"1">> -> 1 [] t = <<"2">> -> 2

\* util.consume_double_quoted; ok = FALSE stands for the ValueError of index().
consume_double_quoted(s) ==
    LET first_quote_index == Index(s, Q)
        second_quote_index == IF first_quote_index = 0 THEN 0
                              ELSE IndexFrom(s, Q, first_quote_index + 1)
    IN  IF first_quote_index = 0 \/ second_quote_index = 0
        THEN [ok |-> FALSE, quoted |-> <<>>, rest |-> <<>>]
        ELSE [ok |-> TRUE,
              quoted |-> SubSeq(s, first_quote_index + 1, second_quote_index - 1),
              rest |-> SubSeq(s, second_quote_index + 1, Len(s))]

(***************************************************************************)
(* Exceptions.  An exception is its type, the text of its message          *)
(* (`what`, with the interpolated values taken out), the input line number *)
(* the message interpolates (<<>> if it interpolates none) and the other   *)
(* interpolated strings, in order.                                         *)
(***************************************************************************)
NoError == [exc |-> "", what |-> "", lineno |-> <<>>, args |-> <<>>]

ValueError(what, lineno, args) ==
    [exc |-> "ValueError", what |-> what, lineno |-> lineno, args |-> args]

KeyError(what, args) ==
    [exc |-> "KeyError", what |-> what, lineno |-> <<>>, args |-> args]

OSError(what) ==
    [exc |-> "OSError", what |-> what, lineno |-> <<>>, args |-> <<>>]

(***************************************************************************)
(* naptan.py                                                               *)
(***************************************************************************)
\* The content of input/naptan.json as build_name_to_naptan reads it:
\* station name -> naptan id.  "Z" and "Y" have no entry.
name_to_naptan ==
    (<<"A">> :> <<"940GA">>) @@ (<<"B">> :> <<"940GB">>) @@
    (<<"C">> :> <<"940GC">>) @@ (<<"Euston">> :> <<"940GE">>) @@
    (<<"Edgware", " ", "Road", " ", "(Circle", " ", "Line)">> :> <<"940GR">>)

EustonCC == <<"Euston", " ", "(Charing", " ", "Cross", " ", "branch)">>

EustonBank == <<"Euston", " ", "(Bank", " ", "branch)">>

EdgwareCircle == <<"Edgware", " ", "Road", " ", "(Circle", " ", "Line)">>

EdgwareHC == EdgwareCircle \o <<" ", "w/", " ", "H&C">>

EdgwareDistrict == EdgwareCircle \o <<" ", "w/", " ", "District">>

\* A faulty get_naptan, which leaves out the suffix that tells the two graph
\* positions of Euston and of Edgware Road apart.
get_naptan_NoSuffix(name) ==
    LET key == CASE name = EustonCC \/ name = EustonBank -> <<"Euston">>
                 [] name = EdgwareHC \/ name = EdgwareDistrict -> EdgwareCircle
                 [] OTHER -> name
    IN  IF key \in DOMAIN name_to_naptan
        THEN [error |-> NoError, naptan |-> name_to_naptan[key]]
        ELSE IF key = name
             THEN [error |-> KeyError("No naptan entry for", <<name>>), naptan |-> <<>>]
             ELSE [error |-> KeyError("", <<key>>), naptan |-> <<>>]

\* NaptanReader.get_naptan
get_naptan(name) ==
    LET key == CASE name = EustonCC \/ name = EustonBank -> <<"Euston">>
                 [] name = EdgwareHC \/ name = EdgwareDistrict -> EdgwareCircle
                 [] OTHER -> name
        suffix == CASE name = EustonCC -> <<"_", "CC">>
                    [] name = EustonBank -> <<"_", "B">>
                    [] name = EdgwareHC -> <<"_", "HC">>
                    [] name = EdgwareDistrict -> <<"_", "D">>
                    [] OTHER -> <<>>
    IN  IF key \in DOMAIN name_to_naptan
        THEN [error |-> NoError, naptan |-> name_to_naptan[key] \o suffix]
        ELSE IF key = name
             THEN [error |-> KeyError("No naptan entry for", <<name>>), naptan |-> <<>>]
             ELSE [error |-> KeyError("", <<key>>), naptan |-> <<>>]

(***************************************************************************)
(* classes.py.  A Python dict is the sequence of its values in insertion   *)
(* order; Line.stations is keyed by Station.name, parser.lines by          *)
(* Line.name.  A Station carries the identity of its object (`id`: the     *)
(* input line whose statement constructed it), because the tuples in       *)
(* Line.edges and Line.curves compare Stations by identity.                *)
(***************************************************************************)
Station(line, name, naptan, x, y, id) ==
    [line |-> line, name |-> name, unique_id |-> line \o <<"_">> \o naptan,
     original_x |-> x, original_y |-> y, id |-> id]

Line(name) == [name |-> name, stations |-> <<>>, edges |-> {}, curves |-> <<>>]

\* key in d
DictHas(d, key) == \E i \in 1..Len(d) : d[i].name = key

\* d[key], for a key in d
DictGet(d, key) == d[CHOOSE i \in 1..Len(d) : d[i].name = key]

\* d[value.name] = value: a present key keeps its position.
DictSet(d, value) ==
    IF DictHas(d, value.name)
    THEN [i \in 1..Len(d) |-> IF d[i].name = value.name THEN value ELSE d[i]]
    ELSE Append(d, value)

\* Line.add_station
add_station(line, station) ==
    [line EXCEPT !.stations = DictSet(@, station)]

DoesNotExist(line, station_name, n) ==
    ValueError("station does not exist for line", <<n>>, <<station_name, line.name>>)

\* A faulty Line.get_station, whose message carries the line number the
\* parser stopped at in place of the one it is given.
get_station_ParserLineNumber(line, station_name, n) ==
    IF ~DictHas(line.stations, station_name)
    THEN [error |-> DoesNotExist(line, station_name, input_line_number),
          station |-> <<>>]
    ELSE [error |-> NoError, station |-> <<DictGet(line.stations, station_name)>>]

\* Line.get_station
get_station(line, station_name, n) ==
    IF ~DictHas(line.stations, station_name)
    THEN [error |-> DoesNotExist(line, station_name, n), station |-> <<>>]
    ELSE [error |-> NoError, station |-> <<DictGet(line.stations, station_name)>>]

\* Line.add_edge
add_edge(line, station_name_1, station_name_2, n) ==
    IF ~DictHas(line.stations, station_name_1)
    THEN [error |-> DoesNotExist(line, station_name_1, n), line |-> line]
    ELSE IF ~DictHas(line.stations, station_name_2)
    THEN [error |-> DoesNotExist(line, station_name_2, n), line |-> line]
    ELSE [error |-> NoError,
          line |-> [line EXCEPT !.edges = @ \cup
                       {<<DictGet(line.stations, station_name_1),
                          DictGet(line.stations, station_name_2)>>}]]

\* A faulty Line.add_curve, without the test that the two stations are
\* connected.
Line_add_curve_Unchecked(line, station_name_1, station_name_2, curve_type, n) ==
    IF ~DictHas(line.stations, station_name_1)
    THEN [error |-> DoesNotExist(line, station_name_1, n), line |-> line]
    ELSE IF ~DictHas(line.stations, station_name_2)
    THEN [error |-> DoesNotExist(line, station_name_2, n), line |-> line]
    ELSE [error |-> NoError,
          line |-> [line EXCEPT !.curves =
                       Append(@, <<DictGet(line.stations, station_name_1),
                                   DictGet(line.stations, station_name_2),
                                   curve_type>>)]]

\* Line.add_curve
Line_add_curve(line, station_name_1, station_name_2, curve_type, n) ==
    IF ~DictHas(line.stations, station_name_1)
    THEN [error |-> DoesNotExist(line, station_name_1, n), line |-> line]
    ELSE IF ~DictHas(line.stations, station_name_2)
    THEN [error |-> DoesNotExist(line, station_name_2, n), line |-> line]
    ELSE LET station1 == DictGet(line.stations, station_name_1)
             station2 == DictGet(line.stations, station_name_2)
         IN  IF <<station1, station2>> \notin line.edges
                /\ <<station2, station1>> \notin line.edges
             THEN [error |-> ValueError("curve specified, but they are not connected",
                                        <<n>>, <<station_name_1, station_name_2>>),
                   line |-> line]
             ELSE [error |-> NoError,
                   line |-> [line EXCEPT !.curves =
                                Append(@, <<station1, station2, curve_type>>)]]

\* A faulty has_orphan_stations, which looks at the first endpoint of an edge
\* only.
has_orphan_stations_FirstEndpoint(line) ==
    LET IsOrphan(station) ==
            \A edge \in line.edges : station.name # edge[1].name
        orphans == {i \in 1..Len(line.stations) : IsOrphan(line.stations[i])}
    IN  IF orphans = {}
        THEN [has_orphan |-> FALSE, orphan |-> <<>>]
        ELSE [has_orphan |-> TRUE, orphan |-> <<line.stations[SetMin(orphans)].name>>]

\* Line.has_orphan_stations: (True, name of the first orphan) or (False, None);
\* orphan is <<>> for None.
has_orphan_stations(line) ==
    LET IsOrphan(station) ==
            \A edge \in line.edges :
                station.name \notin {edge[1].name, edge[2].name}
        orphans == {i \in 1..Len(line.stations) : IsOrphan(line.stations[i])}
    IN  IF orphans = {}
        THEN [has_orphan |-> FALSE, orphan |-> <<>>]
        ELSE [has_orphan |-> TRUE, orphan |-> <<line.stations[SetMin(orphans)].name>>]

(***************************************************************************)
(* parser.py.  Each handler yields the exception it raises (NoError if it  *)
(* returns) and parser.lines as the handler leaves it; file_line is the    *)
(* handler's input_file_line and n the value of the global                 *)
(* input_line_number while the handler runs.                               *)
(***************************************************************************)
None == <<>>

\* lines[key] = value, for parser.lines
SetLine(ls, line) == DictSet(ls, line)

\* parser.sanitize_line
sanitize_line(line) ==
    LET comment_index == Index(line, "#")
        cut == IF comment_index = 0 THEN line ELSE SubSeq(line, 1, comment_index - 1)
    IN  Strip(cut)

LineText(what, n, file_line) == ValueError(what, <<n>>, <<file_line>>)

\* A faulty create_new_line, without the test for an existing Line of the
\* same name: the new Line takes the place of the earlier one.
create_new_line_Overwrite(ls, file_line, n) ==
    LET tokens == Split(file_line)
    IN  IF Len(tokens) < 2
        THEN [error |-> LineText("does not have a line name", n, file_line),
              lines |-> ls, ret |-> <<>>]
        ELSE LET colon_index == Index(tokens[2], ":")
                 line_name == Strip(IF colon_index = 0 THEN tokens[2]
                                    ELSE SubSeq(tokens[2], 1, colon_index - 1))
             IN  [error |-> NoError, lines |-> SetLine(ls, Line(line_name)),
                  ret |-> line_name]

\* parser.create_new_line; ret is the name of the line created.
create_new_line(ls, file_line, n) ==
    LET tokens == Split(file_line)
    IN  IF Len(tokens) < 2
        THEN [error |-> LineText("does not have a line name", n, file_line),
              lines |-> ls, ret |-> <<>>]
        ELSE LET colon_index == Index(tokens[2], ":")
                 line_name == Strip(IF colon_index = 0 THEN tokens[2]
                                    ELSE SubSeq(tokens[2], 1, colon_index - 1))
             IN  IF DictHas(ls, line_name)
                 THEN [error |-> ValueError("redefinition of line", <<>>, <<line_name>>),
                       lines |-> ls, ret |-> <<>>]
                 ELSE [error |-> NoError, lines |-> SetLine(ls, Line(line_name)),
                       ret |-> line_name]

\* The try block of create_new_station that reads the two coordinates.
Coordinates(tokens, n, old_input_file_line) ==
    LET both == LineText("does not have both coordinates", n, old_input_file_line)
        notint == LineText("contains coordinate which is not an integer", n,
                           old_input_file_line)
    IN  IF Len(tokens) < 1 THEN [error |-> both, x |-> 0, y |-> 0]
        ELSE IF tokens[1] \notin IntTokens THEN [error |-> notint, x |-> 0, y |-> 0]
        ELSE IF Len(tokens) < 2 THEN [error |-> both, x |-> 0, y |-> 0]
        ELSE IF tokens[2] \notin IntTokens THEN [error |-> notint, x |-> 0, y |-> 0]
        ELSE [error |-> NoError, x |-> IntValue(tokens[1]), y |-> IntValue(tokens[2])]

\* parser.create_new_station
create_new_station(ls, file_line, cur, n) ==
    IF cur = None
    THEN [error |-> LineText("was declared before a current line was set", n,
                             file_line),
          lines |-> ls]
    ELSE LET q == consume_double_quoted(file_line)
             station_name == q.quoted
             xy == Coordinates(Split(q.rest), n, file_line)
             naptan == get_naptan(station_name)
         IN  IF ~q.ok
             THEN [error |-> LineText("does not have a double-quoted station name", n,
                                      file_line),
                   lines |-> ls]
             ELSE IF xy.error # NoError THEN [error |-> xy.error, lines |-> ls]
             ELSE IF naptan.error # NoError THEN [error |-> naptan.error, lines |-> ls]
             ELSE IF ~DictHas(ls, cur[1])
             THEN [error |-> KeyError("", <<cur[1]>>), lines |-> ls]
             ELSE [error |-> NoError,
                   lines |-> SetLine(ls, add_station(DictGet(ls, cur[1]),
                                Station(cur[1], station_name, naptan.naptan,
                                        xy.x, xy.y, n)))]

\* The while loop of add_edges from position index on: the edges are added
\* one by one, and the first failing add_edge ends the loop.
RECURSIVE AddEdgesFrom(_, _, _, _, _)
AddEdgesFrom(ls, stations, index, cur, n) ==
    IF index > Len(stations) THEN [error |-> NoError, lines |-> ls]
    ELSE IF ~DictHas(ls, cur) THEN [error |-> KeyError("", <<cur>>), lines |-> ls]
    ELSE LET r == add_edge(DictGet(ls, cur), stations[index - 1], stations[index], n)
         IN  IF r.error # NoError THEN [error |-> r.error, lines |-> ls]
             ELSE AddEdgesFrom(SetLine(ls, r.line), stations, index + 1, cur, n)

\* A faulty add_edges, without the test for a missing current line: the
\* lookup lines[None] raises a bare KeyError.
add_edges_NoContextCheck(ls, file_line, cur, n) ==
    IF cur = None
    THEN [error |-> KeyError("", <<<<"None">>>>), lines |-> ls]
    ELSE LET q == consume_double_quoted(file_line)
             stations == StripAll(SplitOn(q.quoted, ","))
         IN  IF ~q.ok
             THEN [error |-> LineText("does not have double-quoted stations", n,
                                      file_line),
                   lines |-> ls]
             ELSE IF Len(stations) < 2
             THEN [error |-> LineText("has fewer than two stations", n, file_line),
                   lines |-> ls]
             ELSE AddEdgesFrom(ls, stations, 2, cur[1], n)

\* A faulty add_edges, whose loop starts one position late and so leaves out
\* the edge between the first two names.
add_edges_SkipFirst(ls, file_line, cur, n) ==
    IF cur = None
    THEN [error |-> LineText("was declared before a current line was set", n,
                             file_line),
          lines |-> ls]
    ELSE LET q == consume_double_quoted(file_line)
             stations == StripAll(SplitOn(q.quoted, ","))
         IN  IF ~q.ok
             THEN [error |-> LineText("does not have double-quoted stations", n,
                                      file_line),
                   lines |-> ls]
             ELSE IF Len(stations) < 2
             THEN [error |-> LineText("has fewer than two stations", n, file_line),
                   lines |-> ls]
             ELSE AddEdgesFrom(ls, stations, 3, cur[1], n)

\* parser.add_edges
add_edges(ls, file_line, cur, n) ==
    IF cur = None
    THEN [error |-> LineText("was declared before a current line was set", n,
                             file_line),
          lines |-> ls]
    ELSE LET q == consume_double_quoted(file_line)
             stations == StripAll(SplitOn(q.quoted, ","))
         IN  IF ~q.ok
             THEN [error |-> LineText("does not have double-quoted stations", n,
                                      file_line),
                   lines |-> ls]
             ELSE IF Len(stations) < 2
             THEN [error |-> LineText("has fewer than two stations", n, file_line),
                   lines |-> ls]
             ELSE AddEdgesFrom(ls, stations, 2, cur[1], n)

Directions ==
    {<<"up">>, <<"down">>, <<"left">>, <<"right">>, <<"up-right">>, <<"up-left">>,
     <<"down-right">>, <<"down-left">>}

\* parser.validate_curve_type
validate_curve_type(rest, old_input_file_line, n) ==
    LET rest_tokens == Split(rest)
    IN  IF Len(rest_tokens) = 0
        THEN [error |-> [exc |-> "IndexError", what |-> "list index out of range",
                         lineno |-> <<>>, args |-> <<>>],
              ret |-> <<>>]
        ELSE LET curve_type == rest_tokens[1]
                 curve_type_tokens == SplitOn(curve_type, ",")
                 bad == Len(curve_type_tokens) # 2
                        \/ \E i \in 1..Len(curve_type_tokens) :
                               Strip(curve_type_tokens[i]) \notin Directions
             IN  IF curve_type # <<"special">> /\ bad
                 THEN [error |-> LineText("has invalid curve type", n, old_input_file_line),
                       ret |-> <<>>]
                 ELSE [error |-> NoError, ret |-> curve_type]

\* parser.add_curve
add_curve(ls, file_line, cur, n) ==
    IF cur = None
    THEN [error |-> LineText("was declared before a current line was set", n,
                             file_line),
          lines |-> ls]
    ELSE LET q == consume_double_quoted(file_line)
             curve_type == validate_curve_type(q.rest, file_line, n)
             stations == StripAll(SplitOn(q.quoted, ","))
         IN  IF ~q.ok
             THEN [error |-> LineText("does not have double-quoted stations", n,
                                      file_line),
                   lines |-> ls]
             ELSE IF Len(q.rest) = 0
             THEN [error |-> LineText("does not have curve type", n, file_line),
                   lines |-> ls]
             ELSE IF curve_type.error # NoError
             THEN [error |-> curve_type.error, lines |-> ls]
             ELSE IF Len(stations) # 2
             THEN [error |-> LineText("does not have two stations", n, file_line),
                   lines |-> ls]
             ELSE IF ~DictHas(ls, cur[1])
             THEN [error |-> KeyError("", <<cur[1]>>), lines |-> ls]
             ELSE LET r == Line_add_curve(DictGet(ls, cur[1]), stations[1], stations[2],
                                          curve_type.ret, n)
                  IN  [error |-> r.error, lines |-> SetLine(ls, r.line)]

MULTI == <<"_", "MULTI">>

CardinalKeywords ==
    {"vertical", "horizontal", "up-right", "up-left", "down-right", "down-left"}

\* A faulty loop body of read_data, whose multi-line branch leaves the
\* current line as it was.
Statement_MultiLineIgnored(ls, cur, ctl, file_line, n) ==
    LET keep == [error |-> NoError, lines |-> ls, current_line |-> cur,
                 constraint_text_lines |-> ctl]
    IN  IF StartsWith(file_line, "line")
        THEN LET r == create_new_line(ls, file_line, n)
             IN  [keep EXCEPT !.error = r.error, !.lines = r.lines,
                              !.current_line = IF r.error = NoError THEN <<r.ret>>
                                               ELSE cur]
        ELSE IF StartsWith(file_line, "station")
        THEN LET r == create_new_station(ls, file_line, cur, n)
             IN  [keep EXCEPT !.error = r.error, !.lines = r.lines]
        ELSE IF StartsWith(file_line, "edges")
        THEN LET r == add_edges(ls, file_line, cur, n)
             IN  [keep EXCEPT !.error = r.error, !.lines = r.lines]
        ELSE IF StartsWith(file_line, "curve")
        THEN LET r == add_curve(ls, file_line, cur, n)
             IN  [keep EXCEPT !.error = r.error, !.lines = r.lines]
        ELSE IF StartsWith(file_line, "multi-line")
        THEN keep
        ELSE IF \E kw \in CardinalKeywords : StartsWith(file_line, kw)
        THEN LET text == Replace(Replace(file_line, "up-left", "down-right"),
                                 "down-left", "up-right")
             IN  [keep EXCEPT !.constraint_text_lines = Append(ctl, <<text, cur, n>>)]
        ELSE IF StartsWith(file_line, "same-station")
                \/ StartsWith(file_line, "equal")
        THEN [keep EXCEPT !.constraint_text_lines =
                              Append(ctl, <<file_line, cur, n>>)]
        ELSE [keep EXCEPT !.error = LineText("has unrecognized form", n, file_line)]

\* The body of the for loop of parser.read_data for one sanitized, non-empty
\* line: the exception raised, and lines, current_line and
\* constraint_text_lines as the iteration leaves them.
Statement(ls, cur, ctl, file_line, n) ==
    LET keep == [error |-> NoError, lines |-> ls, current_line |-> cur,
                 constraint_text_lines |-> ctl]
    IN  IF StartsWith(file_line, "line")
        THEN LET r == create_new_line(ls, file_line, n)
             IN  [keep EXCEPT !.error = r.error, !.lines = r.lines,
                              !.current_line = IF r.error = NoError THEN <<r.ret>>
                                               ELSE cur]
        ELSE IF StartsWith(file_line, "station")
        THEN LET r == create_new_station(ls, file_line, cur, n)
             IN  [keep EXCEPT !.error = r.error, !.lines = r.lines]
        ELSE IF StartsWith(file_line, "edges")
        THEN LET r == add_edges(ls, file_line, cur, n)
             IN  [keep EXCEPT !.error = r.error, !.lines = r.lines]
        ELSE IF StartsWith(file_line, "curve")
        THEN LET r == add_curve(ls, file_line, cur, n)
             IN  [keep EXCEPT !.error = r.error, !.lines = r.lines]
        ELSE IF StartsWith(file_line, "multi-line")
        THEN [keep EXCEPT !.current_line = <<MULTI>>]
        ELSE IF \E kw \in CardinalKeywords : StartsWith(file_line, kw)
        THEN LET text == Replace(Replace(file_line, "up-left", "down-right"),
                                 "down-left", "up-right")
             IN  [keep EXCEPT !.constraint_text_lines = Append(ctl, <<text, cur, n>>)]
        ELSE IF StartsWith(file_line, "same-station")
                \/ StartsWith(file_line, "equal")
        THEN [keep EXCEPT !.constraint_text_lines =
                              Append(ctl, <<file_line, cur, n>>)]
        ELSE [keep EXCEPT !.error = LineText("has unrecognized form", n, file_line)]

\* parser.check_no_orphans: the exception of the first line, in the order of
\* parser.lines, that has an orphan station.
check_no_orphans(ls) ==
    LET bad == {i \in 1..Len(ls) : has_orphan_stations(ls[i]).has_orphan}
    IN  IF bad = {} THEN NoError
        ELSE LET line == ls[SetMin(bad)]
             IN  ValueError("has orphan station", <<>>,
                            <<line.name, has_orphan_stations(line).orphan[1]>>)

(***************************************************************************)
(* ampl.py.  Each write to model.mod is one string; a function that writes *)
(* yields the strings it writes, in order.                                 *)
(***************************************************************************)
\* The content of ampl/initial_model.mod: a template with one "%".
initial_model_text ==
    <<"set", " ", "STATIONS", " ", ":", "=", " ", "{", "%", "}", ";">>

\* sep.join(xs)
RECURSIVE Join(_, _)
Join(xs, sep) ==
    IF Len(xs) = 0 THEN <<>>
    ELSE IF Len(xs) = 1 THEN xs[1]
    ELSE xs[1] \o sep \o Join(Tail(xs), sep)

\* The list station_identifiers of write_initial_model: lines in the order of
\* the dict, stations in the order of each line's dict.
RECURSIVE station_identifiers(_)
station_identifiers(ls) ==
    IF Len(ls) = 0 THEN <<>>
    ELSE [i \in 1..Len(ls[1].stations) |->
              <<Q>> \o ls[1].stations[i].unique_id \o <<Q>>]
         \o station_identifiers(Tail(ls))

\* A faulty write_initial_model, which walks the lines from the last declared
\* to the first.
write_initial_model_LastLineFirst(ls) ==
    LET percent_index == Index(initial_model_text, "%")
        reversed == [i \in 1..Len(ls) |-> ls[Len(ls) + 1 - i]]
    IN  <<SubSeq(initial_model_text, 1, percent_index - 1),
          Join(station_identifiers(reversed), <<",", " ">>),
          SubSeq(initial_model_text, percent_index + 1, Len(initial_model_text)),
          <<"\n">>>>

\* ampl.write_initial_model, once initial_model.mod has been read.
write_initial_model(ls) ==
    LET percent_index == Index(initial_model_text, "%")
    IN  <<SubSeq(initial_model_text, 1, percent_index - 1),
          Join(station_identifiers(ls), <<",", " ">>),
          SubSeq(initial_model_text, percent_index + 1, Len(initial_model_text)),
          <<"\n">>>>

SubjectTo == <<"subject", " ", "to", " ">>

SOLVED_X_COORDS(id) == <<"SOLVED", "_", "X", "_", "COORDS", "[">> \o id \o <<"]">>

SOLVED_Y_COORDS(id) == <<"SOLVED", "_", "Y", "_", "COORDS", "[">> \o id \o <<"]">>

\* ampl.write_vertical_constraint
write_vertical_constraint(id1, id2) ==
    SubjectTo \o <<"vertical", "_">> \o id1 \o <<"_">> \o id2 \o <<":", " ">>
    \o SOLVED_X_COORDS(id1) \o <<" ", "=", " ">> \o SOLVED_X_COORDS(id2)
    \o <<";", "\n">>

\* ampl.write_horizontal_constraint
write_horizontal_constraint(id1, id2) ==
    SubjectTo \o <<"horizontal", "_">> \o id1 \o <<"_">> \o id2 \o <<":", " ">>
    \o SOLVED_Y_COORDS(id1) \o <<" ", "=", " ">> \o SOLVED_Y_COORDS(id2)
    \o <<";", "\n">>

\* ampl.write_rising_diagonal_constraint
write_rising_diagonal_constraint(id1, id2) ==
    SubjectTo \o <<"up", "_", "right", "_">> \o id1 \o <<"_">> \o id2 \o <<":", " ">>
    \o SOLVED_X_COORDS(id1) \o <<" ", "-", " ">> \o SOLVED_X_COORDS(id2)
    \o <<" ", "=", " ", "-", "(">>
    \o SOLVED_Y_COORDS(id1) \o <<" ", "-", " ">> \o SOLVED_Y_COORDS(id2)
    \o <<")", ";", "\n">>

\* ampl.write_falling_diagonal_constraint
write_falling_diagonal_constraint(id1, id2) ==
    SubjectTo \o <<"down", "_", "right", "_">> \o id1 \o <<"_">> \o id2 \o <<":", " ">>
    \o SOLVED_X_COORDS(id1) \o <<" ", "-", " ">> \o SOLVED_X_COORDS(id2)
    \o <<" ", "=", " ">>
    \o SOLVED_Y_COORDS(id1) \o <<" ", "-", " ">> \o SOLVED_Y_COORDS(id2)
    \o <<";", "\n">>

\* lines[network_line] of write_cardinal_direction_constraint: the KeyError of
\* a network_line that is None or names no line.
LookupLine(ls, network_line) ==
    IF network_line = None THEN KeyError("", <<<<"None">>>>)
    ELSE IF ~DictHas(ls, network_line[1]) THEN KeyError("", <<network_line[1]>>)
    ELSE NoError

\* ampl.write_cardinal_direction_constraint
write_cardinal_direction_constraint(station_name_1, station_name_2, constraint_type, ls, network_line, n) ==
    IF network_line = <<MULTI>> THEN [error |-> NoError, out |-> <<>>]
    ELSE IF LookupLine(ls, network_line) # NoError
    THEN [error |-> LookupLine(ls, network_line), out |-> <<>>]
    ELSE LET line == DictGet(ls, network_line[1])
             station1 == get_station(line, station_name_1, n)
             station2 == get_station(line, station_name_2, n)
         IN  IF station1.error # NoError THEN [error |-> station1.error, out |-> <<>>]
             ELSE IF station2.error # NoError
             THEN [error |-> station2.error, out |-> <<>>]
             ELSE LET id1 == station1.station[1].unique_id
                      id2 == station2.station[1].unique_id
                  IN  CASE constraint_type = <<"vertical">> ->
                             [error |-> NoError,
                              out |-> <<write_vertical_constraint(id1, id2)>>]
                        [] constraint_type = <<"horizontal">> ->
                             [error |-> NoError,
                              out |-> <<write_horizontal_constraint(id1, id2)>>]
                        [] constraint_type = <<"up-right">> ->
                             [error |-> NoError,
                              out |-> <<write_rising_diagonal_constraint(id1, id2)>>]
                        [] constraint_type = <<"down-right">> ->
                             [error |-> NoError,
                              out |-> <<write_falling_diagonal_constraint(id1, id2)>>]
                        [] OTHER ->
                             [error |-> ValueError("(internal error) constraint is invalid",
                                                   <<n>>, <<>>),
                              out |-> <<>>]

\* The while loop of process_cardinal_direction_constraint from position
\* index on; out holds the writes made so far, which an exception leaves in
\* the file.
RECURSIVE WriteChainFrom(_, _, _, _, _, _, _)
WriteChainFrom(stations, index, constraint_type, ls, network_line, n, out) ==
    IF index > Len(stations) THEN [error |-> NoError, out |-> out]
    ELSE LET r == write_cardinal_direction_constraint(
                      stations[index - 1], stations[index], constraint_type, ls,
                      network_line, n)
         IN  IF r.error # NoError THEN [error |-> r.error, out |-> out]
             ELSE WriteChainFrom(stations, index + 1, constraint_type, ls, network_line,
                                 n, out \o r.out)

\* A faulty process_cardinal_direction_constraint, whose loop starts one
\* position late and so leaves out the constraint between the first two names.
process_cardinal_direction_constraint_SkipFirst(constraint_type, ls, input_line_rest, network_line, n) ==
    LET q == consume_double_quoted(input_line_rest)
        stations == StripAll(SplitOn(q.quoted, ","))
    IN  IF ~q.ok
        THEN [error |-> ValueError("does not have double-quoted stations", <<n>>, <<>>),
              out |-> <<>>]
        ELSE IF Len(stations) < 2
        THEN [error |-> ValueError("has fewer than two stations", <<n>>, <<>>),
              out |-> <<>>]
        ELSE WriteChainFrom(stations, 3, constraint_type, ls, network_line, n, <<>>)

\* ampl.process_cardinal_direction_constraint
process_cardinal_direction_constraint(constraint_type, ls, input_line_rest, network_line, n) ==
    LET q == consume_double_quoted(input_line_rest)
        stations == StripAll(SplitOn(q.quoted, ","))
    IN  IF ~q.ok
        THEN [error |-> ValueError("does not have double-quoted stations", <<n>>, <<>>),
              out |-> <<>>]
        ELSE IF Len(stations) < 2
        THEN [error |-> ValueError("has fewer than two stations", <<n>>, <<>>),
              out |-> <<>>]
        ELSE WriteChainFrom(stations, 2, constraint_type, ls, network_line, n, <<>>)

\* ampl.process_constraint
process_constraint(ls, file_line, network_line, n) ==
    LET old_input_file_line == file_line
        constraint_type == Split(file_line)[1]
    IN  IF constraint_type \in {<<"vertical">>, <<"horizontal">>, <<"up-right">>,
                                <<"down-right">>}
        THEN process_cardinal_direction_constraint(constraint_type, ls, file_line,
                                                   network_line, n)
        ELSE IF constraint_type = <<"same-station">>
        THEN [error |-> NoError, out |-> <<>>]
        ELSE IF constraint_type = <<"equal">>
        THEN [error |-> NoError, out |-> <<>>]
        ELSE [error |-> ValueError("(internal error) constraint is invalid", <<n>>,
                                   <<old_input_file_line>>),
              out |-> <<>>]

\* ampl.close_files, where fault is the close() call the file system fails
\* ("none" if it fails none): the exception raised, and the two globals and
\* the two streams as close_files leaves them.  A close() that raises has
\* still released its stream.
close_files(fault) ==
    IF fault = "close mod"
    THEN \* ampl_mod_file is not None: the handler swallows the exception
         [error |-> NoError, ampl_mod_file |-> "file", ampl_dat_file |-> "file",
          mod_stream |-> "closed", dat_stream |-> dat_stream]
    ELSE IF fault = "close dat"
    THEN \* ampl_mod_file is None: the handler closes data.dat again and re-raises
         [error |-> OSError("close"), ampl_mod_file |-> "None", ampl_dat_file |-> "file",
          mod_stream |-> "closed", dat_stream |-> "closed"]
    ELSE [error |-> NoError, ampl_mod_file |-> "None", ampl_dat_file |-> "None",
          mod_stream |-> "closed", dat_stream |-> "closed"]

(***************************************************************************)
(* The run of generate_map.main.                                           *)
(***************************************************************************)
Init ==
    /\ pc = "read"
    /\ lines = <<>>
    /\ constraint_text_lines = <<>>
    /\ input_line_number = 0
    /\ current_line = None
    /\ input_file_line = <<>>
    /\ error = NoError
    /\ ampl_mod_file = "None"
    /\ ampl_dat_file = "None"
    /\ mod_stream = "unopened"
    /\ dat_stream = "unopened"
    /\ mod_text = <<>>
    /\ constraint_index = 1
    /\ io_faults = {}
    /\ previous_run = <<>>

amplVars == <<ampl_mod_file, ampl_dat_file, mod_stream, dat_stream, mod_text,
              constraint_index, io_faults, previous_run>>

parserVars == <<lines, constraint_text_lines, input_line_number, current_line,
                input_file_line>>

\* A faulty loop of read_data, which counts only the lines it does not skip.
ReadLineWithin_SkippedNotCounted(raw, limit) ==
    /\ pc = "read"
    /\ input_line_number < limit
    /\ LET s == sanitize_line(raw)
           n == IF Len(s) = 0 THEN input_line_number ELSE input_line_number + 1
           r == IF Len(s) = 0
                THEN [error |-> NoError, lines |-> lines, current_line |-> current_line,
                      constraint_text_lines |-> constraint_text_lines]
                ELSE Statement(lines, current_line, constraint_text_lines, s, n)
       IN  /\ Len(r.constraint_text_lines) <= MaxConstraints
           /\ input_line_number' = n
           /\ input_file_line' = s
           /\ lines' = r.lines
           /\ current_line' = r.current_line
           /\ constraint_text_lines' = r.constraint_text_lines
           /\ error' = r.error
           /\ pc' = IF r.error = NoError THEN "read" ELSE "error"
    /\ UNCHANGED amplVars

\* One iteration of the for loop of parser.read_data, on the raw line `raw`
\* of an input file of at most `limit` lines.
ReadLineWithin(raw, limit) ==
    /\ pc = "read"
    /\ input_line_number < limit
    /\ LET n == input_line_number + 1
           s == sanitize_line(raw)
           r == IF Len(s) = 0
                THEN [error |-> NoError, lines |-> lines, current_line |-> current_line,
                      constraint_text_lines |-> constraint_text_lines]
                ELSE Statement(lines, current_line, constraint_text_lines, s, n)
       IN  /\ Len(r.constraint_text_lines) <= MaxConstraints
           /\ input_line_number' = n
           /\ input_file_line' = s
           /\ lines' = r.lines
           /\ current_line' = r.current_line
           /\ constraint_text_lines' = r.constraint_text_lines
           /\ error' = r.error
           /\ pc' = IF r.error = NoError THEN "read" ELSE "error"
    /\ UNCHANGED amplVars

ReadLine(raw) == ReadLineWithin(raw, MaxInputLines)

\* A faulty parse_data, which returns without running check_no_orphans.
CheckNoOrphans_Skipped ==
    /\ pc = "read"
    /\ error' = NoError
    /\ pc' = "open"
    /\ UNCHANGED <<parserVars, amplVars>>

\* The end of the input file: read_data returns and parse_data runs
\* check_no_orphans.
CheckNoOrphans ==
    /\ pc = "read"
    /\ error' = check_no_orphans(lines)
    /\ pc' = IF check_no_orphans(lines) = NoError THEN "open" ELSE "error"
    /\ UNCHANGED <<parserVars, amplVars>>

\* A faulty open_files, which opens model.mod for appending: what an earlier
\* call wrote stays in the file.
OpenFiles_Append(fault, close_fault) ==
    /\ pc = "open"
    /\ io_faults' = io_faults \cup ({fault} \ {"none"})
                     \cup (IF fault = "open dat" THEN {close_fault} \ {"none"} ELSE {})
    /\ CASE fault = "makedirs" ->
              /\ error' = OSError("makedirs")
              /\ UNCHANGED <<ampl_mod_file, ampl_dat_file, mod_stream, dat_stream>>
         [] fault = "open mod" ->
              /\ error' = OSError("open model.mod")
              /\ UNCHANGED <<ampl_mod_file, ampl_dat_file, mod_stream, dat_stream>>
         [] fault = "open dat" ->
              /\ error' = IF close_fault = "close mod" THEN OSError("close")
                          ELSE OSError("open data.dat")
              /\ ampl_mod_file' = "file"
              /\ mod_stream' = "closed"
              /\ UNCHANGED <<ampl_dat_file, dat_stream>>
         [] OTHER ->
              /\ error' = NoError
              /\ ampl_mod_file' = "file"
              /\ ampl_dat_file' = "file"
              /\ mod_stream' = "open"
              /\ dat_stream' = "open"
    /\ pc' = IF fault = "none" THEN "preamble" ELSE "error"
    /\ UNCHANGED <<parserVars, mod_text, constraint_index, previous_run>>

\* ampl.open_files, where fault is the call the file system fails.  Opening
\* model.mod in mode "w" truncates it.  When the open of data.dat fails the
\* handler closes model.mod before it re-raises; close_fault says whether the
\* file system fails that close() too, whose exception then takes the place
\* of the one of open().
OpenFiles(fault, close_fault) ==
    /\ pc = "open"
    /\ io_faults' = io_faults \cup ({fault} \ {"none"})
                     \cup (IF fault = "open dat" THEN {close_fault} \ {"none"} ELSE {})
    /\ CASE fault = "makedirs" ->
              /\ error' = OSError("makedirs")
              /\ UNCHANGED <<ampl_mod_file, ampl_dat_file, mod_stream, dat_stream>>
         [] fault = "open mod" ->
              /\ error' = OSError("open model.mod")
              /\ UNCHANGED <<ampl_mod_file, ampl_dat_file, mod_stream, dat_stream>>
         [] fault = "open dat" ->
              /\ error' = IF close_fault = "close mod" THEN OSError("close")
                          ELSE OSError("open data.dat")
              /\ ampl_mod_file' = "file"
              /\ mod_stream' = "closed"
              /\ UNCHANGED <<ampl_dat_file, dat_stream>>
         [] OTHER ->
              /\ error' = NoError
              /\ ampl_mod_file' = "file"
              /\ ampl_dat_file' = "file"
              /\ mod_stream' = "open"
              /\ dat_stream' = "open"
    /\ mod_text' = IF fault \in {"makedirs", "open mod"} THEN mod_text ELSE <<>>
    /\ pc' = IF fault = "none" THEN "preamble" ELSE "error"
    /\ UNCHANGED <<parserVars, constraint_index, previous_run>>

\* The except clause of ampl.write_ampl_files for the exception e:
\* close_files(), then raise e.
Except(e, close_fault) ==
    LET c == close_files(close_fault)
    IN  /\ ampl_mod_file' = c.ampl_mod_file
        /\ ampl_dat_file' = c.ampl_dat_file
        /\ mod_stream' = c.mod_stream
        /\ dat_stream' = c.dat_stream
        /\ error' = IF c.error # NoError THEN c.error ELSE e
        /\ pc' = "error"

\* write_initial_model(lines) in the try block of write_ampl_files.
WriteInitialModel(fault, close_fault) ==
    /\ pc = "preamble"
    /\ IF fault = "open template"
       THEN /\ Except(OSError("open initial_model.mod"), close_fault)
            /\ io_faults' = io_faults \cup ({fault, close_fault} \ {"none"})
            /\ UNCHANGED mod_text
       ELSE /\ mod_text' = mod_text \o write_initial_model(lines)
            /\ pc' = "constraints"
            /\ UNCHANGED <<error, ampl_mod_file, ampl_dat_file, mod_stream, dat_stream,
                           io_faults>>
    /\ UNCHANGED <<parserVars, constraint_index, previous_run>>

\* A faulty process_constraints, which walks the deferred constraints from
\* the last recorded to the first.
ProcessConstraint_LastFirst(close_fault) ==
    /\ pc = "constraints"
    /\ constraint_index <= Len(constraint_text_lines)
    /\ LET c == constraint_text_lines[Len(constraint_text_lines) + 1 - constraint_index]
           r == process_constraint(lines, c[1], c[2], c[3])
       IN  /\ mod_text' = mod_text \o r.out
           /\ IF r.error # NoError
              THEN /\ Except(r.error, close_fault)
                   /\ io_faults' = io_faults \cup ({close_fault} \ {"none"})
                   /\ UNCHANGED constraint_index
              ELSE /\ constraint_index' = constraint_index + 1
                   /\ UNCHANGED <<pc, error, ampl_mod_file, ampl_dat_file, mod_stream,
                                  dat_stream, io_faults>>
    /\ UNCHANGED <<parserVars, previous_run>>

\* One iteration of the for loop of ampl.process_constraints, in the try
\* block of write_ampl_files.
ProcessConstraint(close_fault) ==
    /\ pc = "constraints"
    /\ constraint_index <= Len(constraint_text_lines)
    /\ LET c == constraint_text_lines[constraint_index]
           r == process_constraint(lines, c[1], c[2], c[3])
       IN  /\ mod_text' = mod_text \o r.out
           /\ IF r.error # NoError
              THEN /\ Except(r.error, close_fault)
                   /\ io_faults' = io_faults \cup ({close_fault} \ {"none"})
                   /\ UNCHANGED constraint_index
              ELSE /\ constraint_index' = constraint_index + 1
                   /\ UNCHANGED <<pc, error, ampl_mod_file, ampl_dat_file, mod_stream,
                                  dat_stream, io_faults>>
    /\ UNCHANGED <<parserVars, previous_run>>

\* The close_files() that ends write_ampl_files when nothing was raised.
CloseFiles(close_fault) ==
    /\ pc = "constraints"
    /\ constraint_index > Len(constraint_text_lines)
    /\ LET c == close_files(close_fault)
       IN  /\ ampl_mod_file' = c.ampl_mod_file
           /\ ampl_dat_file' = c.ampl_dat_file
           /\ mod_stream' = c.mod_stream
           /\ dat_stream' = c.dat_stream
           /\ error' = c.error
           /\ pc' = IF c.error = NoError THEN "done" ELSE "error"
    /\ io_faults' = io_faults \cup ({close_fault} \ {"none"})
    /\ UNCHANGED <<parserVars, mod_text, constraint_index, previous_run>>

\* write_ampl_files(lines, constraints) is called once more, after a call
\* that returned or raised with the streams closed; how that call ended is
\* kept in previous_run.
CompileAgain ==
    /\ pc \in {"done", "error"}
    /\ mod_stream = "closed"
    /\ dat_stream = "closed"
    /\ previous_run = <<>>
    /\ previous_run' = <<[pc |-> pc, error |-> error, mod_text |-> mod_text,
                          lines |-> lines,
                          constraint_text_lines |-> constraint_text_lines]>>
    /\ pc' = "open"
    /\ error' = NoError
    /\ constraint_index' = 1
    /\ UNCHANGED <<parserVars, ampl_mod_file, ampl_dat_file, mod_stream, dat_stream,
                   mod_text, io_faults>>

OpenFaults == {"none", "makedirs", "open mod", "open dat"}

TemplateFaults == {"none", "open template"}

CloseFaults == {"none", "close mod", "close dat"}

\* The close() of the handler of open_files, which the file system may fail.
HandlerCloseFaults == {"none", "close mod"}

(***************************************************************************)
(* The input file input/tube_data.txt: its raw lines, as readlines()       *)
(* yields them.                                                            *)
(***************************************************************************)
Raw(s) == s \o <<"\n">>

Indented(s) == <<" ", " ">> \o Raw(s)

Chain(names) == Join(names, <<",", " ">>)

LineStmt(name) == <<"line", " ">> \o name

StationStmt(name, x, y) == <<"station", " ", Q>> \o name \o <<Q, " ">> \o x \o <<" ">> \o y

EdgesStmt(names) == <<"edges", " ", Q>> \o Chain(names) \o <<Q>>

CurveStmt(names, curve_type) ==
    <<"curve", " ", Q>> \o Chain(names) \o <<Q, " ">> \o curve_type

ConstraintStmt(kw, names) == <<kw, " ", Q>> \o Chain(names) \o <<Q>>

A == <<"A">>

B == <<"B">>

C == <<"C">>

Z == <<"Z">>

\* Input lines that build the network: lines, stations (Z has no naptan
\* entry), edges and curves, well-formed and not, and statements with other
\* leading words ("alignment-point", "lines").
NetworkLines ==
    {<<" ", "#", " ", "stations", "\n">>,
     Raw(LineStmt(<<"L">>)), Raw(LineStmt(<<"L", ":">>)), Raw(LineStmt(<<"M">>)),
     Indented(StationStmt(A, <<"0">>, <<"0">>)), Indented(StationStmt(A, <<"1">>, <<"2">>)),
     Indented(StationStmt(B, <<"2">>, <<"0">>)), Indented(StationStmt(C, <<"2">>, <<"2">>)),
     Indented(StationStmt(Z, <<"0">>, <<"1">>)),
     Indented(EdgesStmt(<<A, B>>)), Indented(EdgesStmt(<<B, A>>)),
     Indented(EdgesStmt(<<A, B, C>>)), Indented(EdgesStmt(<<A>>)),
     Indented(EdgesStmt(<<A, A>>)), Indented(EdgesStmt(<<A, B, Z>>)),
     Indented(CurveStmt(<<A, B>>, <<"special">>)),
     Indented(CurveStmt(<<B, A>>, <<"up", ",", "down">>)),
     Indented(CurveStmt(<<A, B>>, <<"up">>)),
     Raw(<<"multi-line">>), Raw(<<"alignment-point", " ", Q, "A", Q>>),
     Raw(<<"line", "s", " ", "L">>),
     Indented(ConstraintStmt("vertical", <<A, B>>))}

\* Input lines that declare constraints, over a small network.
ConstraintLines ==
    {Indented(ConstraintStmt("vertical", <<A, B>>)),
     Indented(ConstraintStmt("horizontal", <<A, B, A>>)),
     Indented(ConstraintStmt("up-right", <<B, A>>)),
     Indented(ConstraintStmt("up-left", <<A, B>>)),
     Indented(ConstraintStmt("horizontal", <<A>>)),
     Indented(ConstraintStmt("same-station", <<A, B>>)),
     Indented(ConstraintStmt("equal", <<A, B>>))}

CompileLines ==
    {Raw(LineStmt(<<"L">>)), Indented(StationStmt(A, <<"0">>, <<"0">>)),
     Indented(StationStmt(B, <<"2">>, <<"0">>)), Indented(EdgesStmt(<<A, B>>)),
     Raw(<<"multi-line">>)}
    \cup ConstraintLines

\* Input lines of the runs in which the file system fails.
FaultLines ==
    {Raw(LineStmt(<<"L">>)), Indented(StationStmt(A, <<"0">>, <<"0">>)),
     Indented(StationStmt(B, <<"2">>, <<"0">>)), Indented(EdgesStmt(<<A, B>>)),
     Indented(ConstraintStmt("vertical", <<A, B>>)),
     Indented(ConstraintStmt("horizontal", <<A>>)),
     Indented(ConstraintStmt("same-station", <<A, B>>))}

\* Input lines that declare two Lines, stations that share a naptan entry
\* (the two Euston branches) and a constraint that may be repeated.
OutputLines ==
    {Raw(LineStmt(<<"L">>)), Raw(LineStmt(<<"M">>)),
     Indented(StationStmt(A, <<"0">>, <<"0">>)), Indented(StationStmt(B, <<"2">>, <<"0">>)),
     Indented(StationStmt(EustonCC, <<"1">>, <<"1">>)),
     Indented(StationStmt(EustonBank, <<"1">>, <<"2">>)),
     Indented(EdgesStmt(<<A, A>>)), Indented(EdgesStmt(<<B, A>>)),
     Indented(EdgesStmt(<<EustonCC, EustonBank>>)),
     Indented(ConstraintStmt("vertical", <<A, B>>))}

\* Input lines of the runs in which write_ampl_files is called twice.
TwiceLines ==
    {Raw(LineStmt(<<"L">>)), Indented(StationStmt(A, <<"0">>, <<"0">>)),
     Indented(StationStmt(B, <<"2">>, <<"0">>)), Indented(EdgesStmt(<<A, B>>)),
     Indented(ConstraintStmt("vertical", <<A, B>>)),
     Indented(ConstraintStmt("up-left", <<B, A>>)),
     Indented(ConstraintStmt("horizontal", <<A, Z>>))}

\* Input lines that defer constraints of several kinds over one Line: chains
\* of two and of three names, one of them with an undeclared last name.
DeferredLines ==
    {Raw(LineStmt(<<"L">>)),
     Indented(StationStmt(A, <<"0">>, <<"0">>)), Indented(StationStmt(B, <<"2">>, <<"0">>)),
     Indented(EdgesStmt(<<A, B>>)),
     Indented(ConstraintStmt("horizontal", <<A, B, A>>)),
     Indented(ConstraintStmt("vertical", <<A, B, Z>>)),
     Indented(ConstraintStmt("up-left", <<A, B>>))}

UpLeft == <<"up-left">>

\* Input lines whose words are spelled like keywords of the input language
\* without being them: a statement that begins with "equal" ("equalize"), a
\* station name spelled "up-left", a Line named like the multi-line sentinel.
KeywordLines ==
    {Raw(LineStmt(<<"L">>)), Raw(LineStmt(MULTI)),
     Indented(StationStmt(A, <<"0">>, <<"0">>)), Indented(StationStmt(B, <<"2">>, <<"0">>)),
     Indented(EdgesStmt(<<A, B>>)),
     Indented(ConstraintStmt("vertical", <<A, B>>)),
     Indented(ConstraintStmt("down-left", <<B, A>>)),
     Indented(ConstraintStmt("up-left", <<A, UpLeft>>)),
     Indented(<<"equal", "ize", " ", Q>> \o Chain(<<A, B>>) \o <<Q>>)}

\* generate_map.main on a file system that works.
Next ==
    \/ \E raw \in CompileLines : ReadLine(raw)
    \/ CheckNoOrphans
    \/ OpenFiles("none", "none")
    \/ WriteInitialModel("none", "none")
    \/ ProcessConstraint("none")
    \/ CloseFiles("none")

Spec == Init /\ [][Next]_vars

\* parser.parse_data: read_data, then check_no_orphans.
NextNetwork ==
    \/ \E raw \in NetworkLines : ReadLine(raw)
    \/ CheckNoOrphans

SpecNetwork == Init /\ [][NextNetwork]_vars

\* generate_map.main on a file system that may fail any of the I/O calls.
NextFaults ==
    \/ \E raw \in FaultLines : ReadLine(raw)
    \/ CheckNoOrphans
    \/ \E fault \in OpenFaults, close_fault \in HandlerCloseFaults :
           OpenFiles(fault, close_fault)
    \/ \E fault \in TemplateFaults, close_fault \in CloseFaults :
           WriteInitialModel(fault, close_fault)
    \/ \E close_fault \in CloseFaults : ProcessConstraint(close_fault)
    \/ \E close_fault \in CloseFaults : CloseFiles(close_fault)

SpecFaults == Init /\ [][NextFaults]_vars

\* generate_map.main on input files of up to MaxOutputLines lines.
NextOutput ==
    \/ \E raw \in OutputLines : ReadLineWithin(raw, MaxOutputLines)
    \/ CheckNoOrphans
    \/ OpenFiles("none", "none")
    \/ WriteInitialModel("none", "none")
    \/ ProcessConstraint("none")
    \/ CloseFiles("none")

SpecOutput == Init /\ [][NextOutput]_vars

\* generate_map.main, followed by a second call of write_ampl_files on the
\* same lines and constraints.
NextTwice ==
    \/ \E raw \in TwiceLines : ReadLine(raw)
    \/ CheckNoOrphans
    \/ OpenFiles("none", "none")
    \/ WriteInitialModel("none", "none")
    \/ ProcessConstraint("none")
    \/ CloseFiles("none")
    \/ CompileAgain

SpecTwice == Init /\ [][NextTwice]_vars

\* generate_map.main on input files of up to MaxOutputLines lines that defer
\* constraints.
NextDeferred ==
    \/ \E raw \in DeferredLines : ReadLineWithin(raw, MaxOutputLines)
    \/ CheckNoOrphans
    \/ OpenFiles("none", "none")
    \/ WriteInitialModel("none", "none")
    \/ ProcessConstraint("none")
    \/ CloseFiles("none")

SpecDeferred == Init /\ [][NextDeferred]_vars

\* generate_map.main on input files of up to MaxOutputLines lines whose words
\* are spelled like keywords.
NextKeywords ==
    \/ \E raw \in KeywordLines : ReadLineWithin(raw, MaxOutputLines)
    \/ CheckNoOrphans
    \/ OpenFiles("none", "none")
    \/ WriteInitialModel("none", "none")
    \/ ProcessConstraint("none")
    \/ CloseFiles("none")

SpecKeywords == Init /\ [][NextKeywords]_vars

(***************************************************************************)
(* Properties.                                                             *)
(***************************************************************************)
\* The step is one iteration of read_data's loop; the statement it processes
\* is input_file_line'.
ReadStep == pc = "read" /\ input_line_number' = input_line_number + 1

\* The current-line context names a Line of parser.lines.
OnLine == current_line # None /\ DictHas(lines, current_line[1])

CurrentLine == DictGet(lines, current_line[1])

\* The names of the quoted, comma-separated list of a statement.
QuotedNames(stmt) == StripAll(SplitOn(consume_double_quoted(stmt).quoted, ","))

Distinct(names) ==
    \A i, j \in 1..Len(names) : names[i] = names[j] => i = j

\* A station statement that is well formed and whose name has a naptan entry.
GoodStation(stmt) ==
    /\ StartsWith(stmt, "station")
    /\ consume_double_quoted(stmt).ok
    /\ Coordinates(Split(consume_double_quoted(stmt).rest), 0, stmt).error = NoError
    /\ get_naptan(consume_double_quoted(stmt).quoted).error = NoError

\* The positions <<line, station>> in ls of the Stations with this display name.
StationsNamed(ls, name) ==
    {p \in (1..Len(ls)) \X (1..MaxInputLines + 1) :
        p[2] <= Len(ls[p[1]].stations) /\ ls[p[1]].stations[p[2]].name = name}

\* C1: a station statement whose display name is already declared on the
\* current Line fails and leaves the network as it was, the earlier Station
\* included; a well-formed one whose name is declared only on other Lines is
\* accepted and adds a Station to the current Line, distinct from theirs.
C1_StationNamesUniquePerLine ==
    [][(ReadStep /\ OnLine /\ GoodStation(input_file_line'))
       => LET name == consume_double_quoted(input_file_line').quoted
          IN  IF DictHas(CurrentLine.stations, name)
              THEN pc' = "error" /\ lines' = lines
              ELSE /\ pc' = "read"
                   /\ StationsNamed(lines', name) =
                          StationsNamed(lines, name)
                          \cup {<<CHOOSE i \in 1..Len(lines) : lines[i].name = current_line[1],
                                  Len(CurrentLine.stations) + 1>>}
                   /\ \A s \in StationsNamed(lines, name) :
                          lines'[s[1]].stations[s[2]] = lines[s[1]].stations[s[2]]
      ]_vars

\* The first word of a deferred statement.
ConstraintType(c) == Split(c[1])[1]

CardinalTypes == {<<"vertical">>, <<"horizontal">>, <<"up-right">>, <<"down-right">>}

\* C2: compilation never completes successfully when the deferred list holds
\* a cardinal-direction constraint recorded under the multi-line sentinel.
C2_MultiLineCardinalNotSupported ==
    pc = "done" =>
        \A i \in 1..Len(constraint_text_lines) :
            ~(/\ ConstraintType(constraint_text_lines[i]) \in CardinalTypes
              /\ constraint_text_lines[i][2] = <<MULTI>>)

\* C3: compilation never completes successfully when the deferred list holds
\* a same-station or an equal statement.
C3_SameStationEqualUnsupported ==
    pc = "done" =>
        \A i \in 1..Len(constraint_text_lines) :
            /\ ~StartsWith(constraint_text_lines[i][1], "same-station")
            /\ ~StartsWith(constraint_text_lines[i][1], "equal")

\* The name a line statement declares: its second word, up to a colon.
DeclaredLineName(stmt) ==
    LET word == Split(stmt)[2]
    IN  IF Index(word, ":") = 0 THEN word ELSE SubSeq(word, 1, Index(word, ":") - 1)

\* C4: a line statement whose name, without its colon suffix, is the name of
\* a Line created earlier fails with the redefinition error naming that
\* Line, and parser.lines is left as it was.
C4_LineRedefinitionFails ==
    [][(/\ ReadStep
        /\ StartsWith(input_file_line', "line")
        /\ Len(Split(input_file_line')) >= 2
        /\ DictHas(lines, DeclaredLineName(input_file_line')))
       => /\ pc' = "error"
          /\ error'.what = "redefinition of line"
          /\ error'.args = <<DeclaredLineName(input_file_line')>>
          /\ lines' = lines
      ]_vars

\* A redefinition, written with the colon suffix, of a Line that has
\* stations and edges.
C4_Witness ==
    /\ pc = "error"
    /\ error.what = "redefinition of line"
    /\ Index(input_file_line, ":") # 0
    /\ \E i \in 1..Len(lines) :
           /\ lines[i].name = error.args[1]
           /\ Len(lines[i].stations) >= 2
           /\ lines[i].edges # {}

\* Station j of Line i is an endpoint of no edge of the Line's edge set.
Orphan(i, j) ==
    \A edge \in lines[i].edges :
        /\ edge[1].name # lines[i].stations[j].name
        /\ edge[2].name # lines[i].stations[j].name

StationPositions ==
    {p \in (1..Len(lines)) \X (1..MaxInputLines + 1) : p[2] <= Len(lines[p[1]].stations)}

Before(p, q) == p[1] < q[1] \/ (p[1] = q[1] /\ p[2] < q[2])

\* C5: once the input is parsed, validation passes only if no Station is an
\* orphan, and fails only by naming the Line and the Station of the first
\* orphan, in the order of the Lines and of their Stations.
C5_OrphanValidation ==
    /\ pc = "open" => \A p \in StationPositions : ~Orphan(p[1], p[2])
    /\ (pc = "error" /\ error.what = "has orphan station") =>
           \E p \in StationPositions :
               /\ Orphan(p[1], p[2])
               /\ error.args = <<lines[p[1]].name, lines[p[1]].stations[p[2]].name>>
               /\ \A q \in StationPositions : Before(q, p) => ~Orphan(q[1], q[2])

\* Validation fails on an orphan of a Line whose other stations are joined.
C5_Witness ==
    /\ pc = "error"
    /\ error.what = "has orphan station"
    /\ \E i \in 1..Len(lines) :
           /\ lines[i].name = error.args[1]
           /\ lines[i].edges # {}
           /\ lines[i].stations[1].name # error.args[2]

\* C6: an edges statement listing k >= 2 pairwise-distinct names, all
\* declared on the current Line, adds to that Line the k-1 edges joining
\* consecutive names and changes nothing else; one whose quoted list holds a
\* single name fails and leaves the network as it was.
C6_EdgesChain ==
    [][(/\ ReadStep
        /\ StartsWith(input_file_line', "edges")
        /\ consume_double_quoted(input_file_line').ok)
       => LET names == QuotedNames(input_file_line')
              k == Len(names)
              chain == {<<DictGet(CurrentLine.stations, names[i]),
                          DictGet(CurrentLine.stations, names[i + 1])>> : i \in 1..k - 1}
          IN  /\ (/\ OnLine
                  /\ k >= 2
                  /\ Distinct(names)
                  /\ \A i \in 1..k : DictHas(CurrentLine.stations, names[i]))
                 => /\ pc' = "read"
                    /\ Cardinality(chain) = k - 1
                    /\ Len(lines') = Len(lines)
                    /\ \A i \in 1..Len(lines) :
                           lines'[i] = IF lines[i].name = current_line[1]
                                       THEN [lines[i] EXCEPT !.edges = @ \cup chain]
                                       ELSE lines[i]
              /\ k = 1 => (pc' = "error" /\ lines' = lines)
      ]_vars

\* An edges statement over three distinct names has added its two edges.
C6_Witness ==
    /\ pc = "read"
    /\ StartsWith(input_file_line, "edges")
    /\ Len(QuotedNames(input_file_line)) = 3
    /\ Distinct(QuotedNames(input_file_line))
    /\ \E i \in 1..Len(lines) : Cardinality(lines[i].edges) = 2

\* The step is one iteration of the loop of process_constraints, on the
\* deferred constraint at constraint_index.
CompileStep == pc = "constraints" /\ constraint_index <= Len(constraint_text_lines)

XOf(id) == <<"SOLVED", "_", "X", "_", "COORDS", "[">> \o id \o <<"]">>

YOf(id) == <<"SOLVED", "_", "Y", "_", "COORDS", "[">> \o id \o <<"]">>

Minus(l, r) == l \o <<" ", "-", " ">> \o r

\* The equality constraint of each kind between the stations with stable
\* identifiers a and b, as a line of model.mod.
Equality(kind, a, b) ==
    LET label == CASE kind = <<"vertical">> -> <<"vertical">>
                   [] kind = <<"horizontal">> -> <<"horizontal">>
                   [] kind = <<"up-right">> -> <<"up", "_", "right">>
                   [] kind = <<"down-right">> -> <<"down", "_", "right">>
        lhs == CASE kind = <<"vertical">> -> XOf(a)
                 [] kind = <<"horizontal">> -> YOf(a)
                 [] OTHER -> Minus(XOf(a), XOf(b))
        rhs == CASE kind = <<"vertical">> -> XOf(b)
                 [] kind = <<"horizontal">> -> YOf(b)
                 [] kind = <<"up-right">> -> <<"-", "(">> \o Minus(YOf(a), YOf(b)) \o <<")">>
                 [] kind = <<"down-right">> -> Minus(YOf(a), YOf(b))
    IN  <<"subject", " ", "to", " ">> \o label \o <<"_">> \o a \o <<"_">> \o b
        \o <<":", " ">> \o lhs \o <<" ", "=", " ">> \o rhs \o <<";", "\n">>

\* C7: a deferred cardinal constraint of kind K over N >= 2 station names
\* that all exist on its target Line writes exactly N-1 equality
\* constraints, the i-th between the stable identifiers of the i-th and the
\* (i+1)-th station in the form of K, and compilation goes on; one over
\* fewer than two names fails and writes nothing.
C7_CardinalChainCompiles ==
    [][CompileStep
       => LET c == constraint_text_lines[constraint_index]
              kind == ConstraintType(c)
              names == QuotedNames(c[1])
              N == Len(names)
              target == DictGet(lines, c[2][1])
              id(i) == DictGet(target.stations, names[i]).unique_id
          IN  (kind \in CardinalTypes /\ consume_double_quoted(c[1]).ok)
              => /\ (/\ N >= 2
                     /\ c[2] # None
                     /\ c[2] # <<MULTI>>
                     /\ DictHas(lines, c[2][1])
                     /\ \A i \in 1..N : DictHas(target.stations, names[i]))
                    => /\ pc' = "constraints"
                       /\ constraint_index' = constraint_index + 1
                       /\ mod_text' = mod_text \o
                              [i \in 1..N - 1 |-> Equality(kind, id(i), id(i + 1))]
                 /\ N < 2 => (pc' = "error" /\ mod_text' = mod_text)
      ]_vars

\* A horizontal constraint over a chain of three names has been compiled to
\* two constraints after the four writes of the preamble.
C7_Witness ==
    /\ pc = "constraints"
    /\ constraint_index = 2
    /\ ConstraintType(constraint_text_lines[1]) = <<"horizontal">>
    /\ Len(QuotedNames(constraint_text_lines[1][1])) = 3
    /\ Len(mod_text) = 6

\* The stations named n1 and n2 exist on the Line and form one of its edges,
\* in one orientation or the other.
FormEdge(line, n1, n2) ==
    /\ DictHas(line.stations, n1)
    /\ DictHas(line.stations, n2)
    /\ \/ <<DictGet(line.stations, n1), DictGet(line.stations, n2)>> \in line.edges
       \/ <<DictGet(line.stations, n2), DictGet(line.stations, n1)>> \in line.edges

CurvesOnEdges ==
    \A i \in 1..Len(lines) :
        \A k \in 1..Len(lines[i].curves) :
            \/ <<lines[i].curves[k][1], lines[i].curves[k][2]>> \in lines[i].edges
            \/ <<lines[i].curves[k][2], lines[i].curves[k][1]>> \in lines[i].edges

\* C8: the two endpoints of every recorded curve form an edge of the same
\* Line, in one orientation or the other; and a curve statement naming two
\* stations that do not form a declared edge fails and records no curve.
C8_CurvesOnDeclaredEdges ==
    /\ []CurvesOnEdges
    /\ [][(/\ ReadStep
           /\ StartsWith(input_file_line', "curve")
           /\ consume_double_quoted(input_file_line').ok
           /\ Len(QuotedNames(input_file_line')) = 2
           /\ ~(OnLine /\ FormEdge(CurrentLine, QuotedNames(input_file_line')[1],
                                   QuotedNames(input_file_line')[2])))
          => (pc' = "error" /\ lines' = lines)
         ]_vars

\* A curve is recorded on an edge that was declared in the other orientation.
C8_Witness ==
    \E i \in 1..Len(lines) :
        \E k \in 1..Len(lines[i].curves) :
            /\ <<lines[i].curves[k][1], lines[i].curves[k][2]>> \notin lines[i].edges
            /\ <<lines[i].curves[k][2], lines[i].curves[k][1]>> \in lines[i].edges

\* The exception of the deferred constraint at constraint_index.
RaisedByConstraint ==
    LET c == constraint_text_lines[constraint_index]
    IN  process_constraint(lines, c[1], c[2], c[3]).error

\* C9: when write_ampl_files returns or raises, no stream that was opened is
\* still open; and when it raises, the exception is the one that ended the
\* work: the failed open of data.dat, the failed preamble, the exception of
\* the deferred constraint.
C9_StreamsClosedOnEveryExit ==
    pc \in {"done", "error"}
    => /\ mod_stream # "open"
       /\ dat_stream # "open"
       /\ (pc = "error" /\ "open dat" \in io_faults) => error = OSError("open data.dat")
       /\ (pc = "error" /\ "open template" \in io_faults)
              => error = OSError("open initial_model.mod")
       /\ (/\ pc = "error"
           /\ Len(mod_text) >= 4
           /\ constraint_index <= Len(constraint_text_lines))
              => (error # NoError /\ error = RaisedByConstraint)
       /\ pc = "done"
              => \A i \in 1..Len(constraint_text_lines) :
                     LET c == constraint_text_lines[i]
                     IN  process_constraint(lines, c[1], c[2], c[3]).error = NoError

\* C10: every failure carries the 1-based number of an input line.
C10_FailuresCarryLineNumber ==
    pc = "error" => (Len(error.lineno) = 1 /\ error.lineno[1] \in 1..input_line_number)

\* parse_data has returned: the input was parsed and passed
\* check_no_orphans.  main is then in write_ampl_files, or has left it by
\* returning or by an exception, which is one of open_files (a failed I/O
\* call) or comes after model.mod was opened.
Validated ==
    \/ pc \in {"open", "preamble", "constraints", "done"}
    \/ mod_stream # "unopened"
    \/ io_faults # {}

\* The identifiers, quotes included, of the list written by
\* write_initial_model; the empty text is the join of the empty list.
WrittenIdentifiers ==
    IF mod_text[2] = <<>> THEN <<>> ELSE StripAll(SplitOn(mod_text[2], ","))

\* C11: once the input has parsed and validated, no two Stations of
\* parser.lines, on one Line or on two, have the same unique_id, and the
\* identifier list written to model.mod holds no identifier twice.
C11_StableIdentifiersUnique ==
    Validated
    => /\ \A p, q \in StationPositions :
              lines[p[1]].stations[p[2]].unique_id = lines[q[1]].stations[q[2]].unique_id
              => p = q
       /\ Len(mod_text) >= 2 => Distinct(WrittenIdentifiers)

\* The preamble is written for a Line that holds both branches of Euston,
\* whose identifiers come from the same naptan entry.
C11_Witness ==
    /\ Len(mod_text) >= 4
    /\ \E i \in 1..Len(lines) :
           /\ DictHas(lines[i].stations, EustonCC)
           /\ DictHas(lines[i].stations, EustonBank)
    /\ Len(WrittenIdentifiers) >= 2

\* The statement is a cardinal-direction constraint statement.
IsCardinalStmt(stmt) == \E kw \in CardinalKeywords : StartsWith(stmt, kw)

\* C12: read_data accepts a cardinal constraint statement without resolving
\* its station names, recording it with its source line number; when the
\* constraint is compiled, it succeeds if its names exist on its target Line
\* by then, whenever they were declared, and otherwise fails with the
\* does-not-exist error that carries the constraint's source line number.
C12_ConstraintsResolvedAtCompilation ==
    /\ [][(ReadStep /\ IsCardinalStmt(input_file_line'))
          => /\ pc' = "read"
             /\ lines' = lines
             /\ Len(constraint_text_lines') = Len(constraint_text_lines) + 1
             /\ constraint_text_lines'[Len(constraint_text_lines')][3] = input_line_number'
         ]_vars
    /\ [][CompileStep
          => LET c == constraint_text_lines[constraint_index]
                 names == QuotedNames(c[1])
                 target == DictGet(lines, c[2][1])
                 missing == {i \in 1..Len(names) : ~DictHas(target.stations, names[i])}
             IN  (/\ ConstraintType(c) \in CardinalTypes
                  /\ consume_double_quoted(c[1]).ok
                  /\ Len(names) >= 2
                  /\ c[2] # None
                  /\ c[2] # <<MULTI>>
                  /\ DictHas(lines, c[2][1]))
                 => IF missing = {}
                    THEN pc' = "constraints" /\ error' = NoError
                    ELSE /\ pc' = "error"
                         /\ error'.exc = "ValueError"
                         /\ error'.what = "station does not exist for line"
                         /\ error'.lineno = <<c[3]>>
                         /\ error'.args[1] \in {names[i] : i \in missing}
                         /\ error'.args[2] = target.name
                         /\ c[3] \in 1..input_line_number
         ]_vars

\* A constraint has compiled whose first station was declared on a later
\* input line than the constraint itself.
C12_Witness ==
    /\ pc \in {"constraints", "done"}
    /\ constraint_index > 1
    /\ Len(mod_text) >= 5
    /\ LET c == constraint_text_lines[1]
       IN  /\ ConstraintType(c) \in CardinalTypes
           /\ c[2] # None
           /\ DictHas(lines, c[2][1])
           /\ DictHas(DictGet(lines, c[2][1]).stations, QuotedNames(c[1])[1])
           /\ DictGet(DictGet(lines, c[2][1]).stations, QuotedNames(c[1])[1]).id > c[3]

\* C13: a station, edges or curve statement read while no Line is selected
\* fails with an error that carries its line number and its text, and leaves
\* parser.lines as it was.
C13_StatementsNeedCurrentLine ==
    [][(/\ ReadStep
        /\ current_line = None
        /\ \E kw \in {"station", "edges", "curve"} : StartsWith(input_file_line', kw))
       => /\ pc' = "error"
          /\ error'.exc = "ValueError"
          /\ error'.lineno = <<input_line_number'>>
          /\ error'.args = <<input_file_line'>>
          /\ lines' = lines
      ]_vars

\* An edges statement on the second input line, before any line statement,
\* has failed.
C13_Witness ==
    /\ pc = "error"
    /\ error.what = "was declared before a current line was set"
    /\ StartsWith(input_file_line, "edges")
    /\ input_line_number = 2
    /\ lines = <<>>

\* The leading keywords of the statements of the input language.
LeadingKeywords ==
    {<<"line">>, <<"station">>, <<"edges">>, <<"curve">>, <<"multi-line">>,
     <<"vertical">>, <<"horizontal">>, <<"up-right">>, <<"up-left">>,
     <<"down-right">>, <<"down-left">>, <<"same-station">>, <<"equal">>}

\* C14: a statement whose first whitespace-delimited token is none of the
\* leading keywords fails with the unrecognized-form error naming its line,
\* and changes neither parser.lines, the deferred constraints nor the
\* current-line context.
C14_UnrecognizedStatementFails ==
    [][(/\ ReadStep
        /\ Len(input_file_line') > 0
        /\ Split(input_file_line')[1] \notin LeadingKeywords)
       => /\ pc' = "error"
          /\ error'.what = "has unrecognized form"
          /\ error'.lineno = <<input_line_number'>>
          /\ lines' = lines
          /\ constraint_text_lines' = constraint_text_lines
          /\ current_line' = current_line
      ]_vars

\* The k-th Station of parser.lines, in the order of the Lines and, within a
\* Line, of its stations.
NthStation(k) ==
    LET p == CHOOSE p \in StationPositions :
                 Cardinality({q \in StationPositions : Before(q, p)}) = k - 1
    IN  lines[p[1]].stations[p[2]]

\* C15: the preamble written to model.mod is the template with its "%"
\* replaced by the unique_id of every Station, each once and in double
\* quotes, separated by commas, in the order of the Lines and, within a Line,
\* of its stations.
C15_PreambleListsEveryStation ==
    Len(mod_text) >= 4
    => /\ mod_text[1] = <<"set", " ", "STATIONS", " ", ":", "=", " ", "{">>
       /\ mod_text[3] = <<"}", ";">>
       /\ mod_text[4] = <<"\n">>
       /\ IF StationPositions = {}
          THEN mod_text[2] = <<>>
          ELSE WrittenIdentifiers =
                   [k \in 1..Cardinality(StationPositions) |->
                        <<Q>> \o NthStation(k).unique_id \o <<Q>>]

\* The preamble is written for two Lines that both hold stations.
C15_Witness ==
    /\ Len(mod_text) >= 4
    /\ Len(lines) = 2
    /\ Len(lines[1].stations) >= 1
    /\ Len(lines[2].stations) >= 1
    /\ Len(WrittenIdentifiers) >= 2

\* C16: a second call of write_ampl_files on the same lines and constraints
\* ends as the first did, with the same text in model.mod, write for write;
\* and no step of a compilation changes the lines or the constraints.
C16_CompilationDeterministic ==
    /\ []((previous_run # <<>> /\ pc \in {"done", "error"})
          => /\ mod_text = previous_run[1].mod_text
             /\ pc = previous_run[1].pc
             /\ error = previous_run[1].error
             /\ lines = previous_run[1].lines
             /\ constraint_text_lines = previous_run[1].constraint_text_lines)
    /\ [][pc # "read"
          => (lines' = lines /\ constraint_text_lines' = constraint_text_lines)]_vars

\* A second compilation has completed, having written the preamble and a
\* constraint as the first did.
C16_Witness ==
    /\ previous_run # <<>>
    /\ previous_run[1].pc = "done"
    /\ pc = "done"
    /\ Len(mod_text) >= 5

\* Nothing of the compilation has happened: no stream was opened, nothing
\* was written and no deferred constraint was processed.
NothingCompiled ==
    /\ mod_stream = "unopened"
    /\ dat_stream = "unopened"
    /\ mod_text = <<>>
    /\ constraint_index = 1

\* C17: the orphan check comes after the last statement is parsed and before
\* the streams are opened: while the input is read and when the check fails
\* nothing of the compilation has happened, the compilation starts only on
\* lines without orphan, and no statement is parsed after the check.
C17_OrphanCheckBeforeCompilation ==
    /\ []((pc = "read" \/ (pc = "error" /\ error.what = "has orphan station"))
          => NothingCompiled)
    /\ [](~NothingCompiled \/ pc \in {"open", "preamble", "constraints", "done"}
          => \A p \in StationPositions : ~Orphan(p[1], p[2]))
    /\ [][pc # "read" => UNCHANGED parserVars]_vars

\* The run ended at the orphan check with a deferred constraint unresolved.
C17_Witness ==
    /\ pc = "error"
    /\ error.what = "has orphan station"
    /\ Len(constraint_text_lines) >= 1
    /\ NothingCompiled

\* C18: during the parse parser.lines only grows: after every statement each
\* Line is still there under its name, with each of its Stations unaltered
\* (the same object, name, coordinates and identifier), each of its edges
\* and each of its curves.
C18_NetworkOnlyGrows ==
    [][ReadStep
       => /\ Len(lines') >= Len(lines)
          /\ \A i \in 1..Len(lines) :
                 /\ lines'[i].name = lines[i].name
                 /\ Len(lines'[i].stations) >= Len(lines[i].stations)
                 /\ \A j \in 1..Len(lines[i].stations) :
                        lines'[i].stations[j] = lines[i].stations[j]
                 /\ lines[i].edges \subseteq lines'[i].edges
                 /\ Len(lines'[i].curves) >= Len(lines[i].curves)
                 /\ \A k \in 1..Len(lines[i].curves) :
                        lines'[i].curves[k] = lines[i].curves[k]
      ]_vars

\* The constraints written to model.mod: the writes after the four of the
\* preamble.
EmittedConstraints == SubSeq(mod_text, 5, Len(mod_text))

\* The name of an emitted constraint: what stands between "subject to " and
\* the colon.
ConstraintName(text) == SubSeq(text, 5, Index(text, ":") - 1)

\* C19: no two constraints written to model.mod have the same name.
C19_ConstraintNamesUnique ==
    \A i, j \in 1..Len(EmittedConstraints) :
        ConstraintName(EmittedConstraints[i]) = ConstraintName(EmittedConstraints[j])
        => i = j

\* The statement is one that read_data defers to the compilation.
IsDeferredStmt(stmt) ==
    IsCardinalStmt(stmt) \/ StartsWith(stmt, "same-station") \/ StartsWith(stmt, "equal")

\* C20: the context recorded with a deferred constraint is the current-line
\* context in force when its statement is read, and is never changed later;
\* the context is none at first, becomes the Line a successful line
\* statement creates, becomes the multi-line sentinel at a multi-line
\* statement, and is left alone by every other statement.
C20_RecordedContextIsCurrentLine ==
    /\ current_line = None
    /\ [][/\ Len(constraint_text_lines') >= Len(constraint_text_lines)
          /\ SubSeq(constraint_text_lines', 1, Len(constraint_text_lines))
                 = constraint_text_lines
          /\ ReadStep
             => LET stmt == input_file_line'
                IN  /\ (StartsWith(stmt, "line") /\ pc' = "read")
                           => /\ current_line' = <<DeclaredLineName(stmt)>>
                              /\ ~DictHas(lines, DeclaredLineName(stmt))
                              /\ DictHas(lines', DeclaredLineName(stmt))
                    /\ StartsWith(stmt, "multi-line") => current_line' = <<MULTI>>
                    /\ ~(StartsWith(stmt, "line") /\ pc' = "read")
                           /\ ~StartsWith(stmt, "multi-line")
                           => current_line' = current_line
                    /\ (Len(stmt) > 0 /\ IsDeferredStmt(stmt))
                           => /\ Len(constraint_text_lines')
                                     = Len(constraint_text_lines) + 1
                              /\ constraint_text_lines'[Len(constraint_text_lines')][2]
                                     = current_line
                              /\ constraint_text_lines'[Len(constraint_text_lines')][3]
                                     = input_line_number'
         ]_vars

\* A constraint is recorded under the second of two Lines, the one created by
\* the most recent line statement.
C20_Witness ==
    /\ Len(lines) = 2
    /\ Len(constraint_text_lines) >= 1
    /\ constraint_text_lines[1][2] = <<lines[2].name>>
    /\ constraint_text_lines[1][3] = input_line_number

\* The constraints that the deferred constraint c emits: for a well-formed
\* cardinal constraint on a Line, one equality per consecutive pair of names,
\* from left to right, up to the first pair with an undeclared name; nothing
\* for any other constraint.
EmittedBy(c) ==
    LET kind == ConstraintType(c)
        names == QuotedNames(c[1])
        N == Len(names)
        target == DictGet(lines, c[2][1])
        id(i) == DictGet(target.stations, names[i]).unique_id
        broken == {i \in 1..N - 1 : \/ ~DictHas(target.stations, names[i])
                                    \/ ~DictHas(target.stations, names[i + 1])}
        m == IF broken = {} THEN N ELSE SetMin(broken)
    IN  IF /\ kind \in CardinalTypes
           /\ consume_double_quoted(c[1]).ok
           /\ N >= 2
           /\ c[2] # None
           /\ c[2] # <<MULTI>>
           /\ DictHas(lines, c[2][1])
        THEN [i \in 1..m - 1 |-> Equality(kind, id(i), id(i + 1))]
        ELSE <<>>

\* What the first k deferred constraints emit, in the order of the list.
RECURSIVE EmittedUpTo(_)
EmittedUpTo(k) ==
    IF k = 0 THEN <<>>
    ELSE EmittedUpTo(k - 1) \o EmittedBy(constraint_text_lines[k])

\* C21: model.mod holds the four writes of the preamble first and then what
\* the deferred constraints emit, constraint after constraint in the order of
\* the deferred list (the order of their statements in the input) and pair
\* after pair from left to right within a chain; nothing is written before
\* the compilation writes the preamble, and no write of the preamble comes
\* after a constraint.
C21_OutputInDeferredOrder ==
    /\ pc \in {"read", "open", "preamble"} => mod_text = <<>>
    /\ \A i \in 1..Len(constraint_text_lines) :
           /\ constraint_text_lines[i][3] \in 1..input_line_number
           /\ \A j \in 1..i - 1 :
                  constraint_text_lines[j][3] < constraint_text_lines[i][3]
    /\ mod_text # <<>>
       => /\ Len(mod_text) >= 4
          /\ StartsWith(mod_text[1], "set")
          /\ mod_text[4] = <<"\n">>
          /\ \A k \in 1..4 : ~StartsWith(mod_text[k], "subject")
          /\ \A k \in 5..Len(mod_text) : StartsWith(mod_text[k], "subject")
          /\ EmittedConstraints =
                 EmittedUpTo(IF pc = "error" THEN constraint_index
                             ELSE constraint_index - 1)

\* Two deferred statements have been compiled, a chain of three names to two
\* constraints and then a statement of another kind to a third.
C21_Witness ==
    /\ pc = "done"
    /\ Len(constraint_text_lines) = 2
    /\ Len(EmittedBy(constraint_text_lines[1])) = 2
    /\ Len(EmittedBy(constraint_text_lines[2])) = 1
    /\ ConstraintType(constraint_text_lines[1]) # ConstraintType(constraint_text_lines[2])
    /\ Len(mod_text) = 7

\* C22: input_line_number counts the raw lines read: it is 0 before the first
\* and every iteration of read_data's loop adds exactly one, also for a line
\* that is empty once sanitized, which changes nothing else; the number
\* recorded with a deferred constraint and the number carried by a parse
\* diagnostic are the counter's value for the line of the statement.
C22_LineNumbersCountRawLines ==
    /\ input_line_number = 0
    /\ [][pc = "read"
          => \/ (pc' # "read" /\ UNCHANGED parserVars)
             \/ /\ input_line_number' = input_line_number + 1
                /\ Len(input_file_line') = 0
                       => /\ pc' = "read"
                          /\ lines' = lines
                          /\ constraint_text_lines' = constraint_text_lines
                          /\ current_line' = current_line
                /\ constraint_text_lines' # constraint_text_lines
                       => /\ Len(constraint_text_lines') = Len(constraint_text_lines) + 1
                          /\ constraint_text_lines'[Len(constraint_text_lines')][3]
                                 = input_line_number + 1
                /\ (pc' = "error" /\ error'.lineno # <<>>)
                       => error'.lineno = <<input_line_number + 1>>
         ]_vars

\* A constraint statement on the second input line, after a line that was
\* skipped, is recorded with the number 2.
C22_Witness ==
    /\ pc = "read"
    /\ input_line_number = 2
    /\ lines = <<>>
    /\ Len(constraint_text_lines) = 1
    /\ constraint_text_lines[1][2] = None
    /\ constraint_text_lines[1][3] = 2

\* C23: the edge set of a Line holds at most one edge between two Stations,
\* whichever way round and however often the edge was declared.
C23_EdgesAreUnorderedPairs ==
    \A i \in 1..Len(lines) :
        \A e, f \in lines[i].edges :
            {e[1], e[2]} = {f[1], f[2]} => e = f

\* The keyword that read_data's normalization puts in the place of kw.
Normalized(kw) ==
    CASE kw = "up-left" -> "down-right"
      [] kw = "down-left" -> "up-right"
      [] OTHER -> kw

\* C24: an up-left statement is recorded, and so compiled, exactly as the
\* down-right statement over the same chain is, and a down-left statement as
\* the up-right one; the text recorded is the statement with its leading
\* keyword replaced and everything after it, the quoted station names
\* included, as written.
C24_NormalizationOnlyRenamesKeyword ==
    [][(/\ ReadStep
        /\ \/ StartsWith(input_file_line', "up-left")
           \/ StartsWith(input_file_line', "down-left"))
       => LET stmt == input_file_line'
              twin == <<Normalized(stmt[1])>> \o Tail(stmt)
              recorded == constraint_text_lines'[Len(constraint_text_lines')]
          IN  /\ pc' = "read"
              /\ Len(constraint_text_lines') = Len(constraint_text_lines) + 1
              /\ constraint_text_lines' =
                     Statement(lines, current_line, constraint_text_lines, twin,
                               input_line_number').constraint_text_lines
              /\ recorded[1] = twin
              /\ QuotedNames(recorded[1]) = QuotedNames(stmt)
      ]_vars

\* Station j of Line i is joined by an edge to another Station of the Line.
JoinedToAnother(i, j) ==
    \E edge \in lines[i].edges :
        \/ edge[1].name = lines[i].stations[j].name /\ edge[2].name # edge[1].name
        \/ edge[2].name = lines[i].stations[j].name /\ edge[1].name # edge[2].name

\* C25: validation passes only if every Station is joined to another Station
\* of its Line, and fails by naming a Station that is joined to none; a
\* Station whose only edges join it to itself does not pass.
C25_SelfLoopStationIsOrphan ==
    /\ pc = "open" => \A p \in StationPositions : JoinedToAnother(p[1], p[2])
    /\ (pc = "error" /\ error.what = "has orphan station") =>
           \E p \in StationPositions :
               /\ ~JoinedToAnother(p[1], p[2])
               /\ error.args = <<lines[p[1]].name, lines[p[1]].stations[p[2]].name>>

\* The leading words that process_constraint handles.
CompilerKeywords == CardinalTypes \cup {<<"same-station">>, <<"equal">>}

\* C26: every statement in the deferred list begins with a word that the
\* compiler handles, and no compilation ends in the compiler's internal
\* error.
C26_DeferredKeywordsRecognised ==
    /\ \A i \in 1..Len(constraint_text_lines) :
           ConstraintType(constraint_text_lines[i]) \in CompilerKeywords
    /\ error.what # "(internal error) constraint is invalid"

\* C27: a well-formed cardinal constraint whose recorded context is the name
\* of a declared Line, whatever that name is, is resolved against the Line's
\* stations when it is compiled: over N >= 2 names that exist on the Line it
\* writes its N-1 constraints.
C27_SentinelIsNoLineName ==
    [][CompileStep
       => LET c == constraint_text_lines[constraint_index]
              kind == ConstraintType(c)
              names == QuotedNames(c[1])
              N == Len(names)
              target == DictGet(lines, c[2][1])
              id(i) == DictGet(target.stations, names[i]).unique_id
          IN  (/\ kind \in CardinalTypes
               /\ consume_double_quoted(c[1]).ok
               /\ N >= 2
               /\ c[2] # None
               /\ DictHas(lines, c[2][1])
               /\ \A i \in 1..N : DictHas(target.stations, names[i]))
              => /\ pc' = "constraints"
                 /\ mod_text' = mod_text \o
                        [i \in 1..N - 1 |-> Equality(kind, id(i), id(i + 1))]
      ]_vars

\* C28: an edges statement that names a station not declared on the current
\* Line fails and leaves parser.lines, the Line's edge set included, as it
\* was before the statement, wherever in the chain the name stands.
C28_FailingEdgesChangeNothing ==
    [][(/\ ReadStep
        /\ StartsWith(input_file_line', "edges")
        /\ consume_double_quoted(input_file_line').ok
        /\ OnLine
        /\ \E i \in 1..Len(QuotedNames(input_file_line')) :
               ~DictHas(CurrentLine.stations, QuotedNames(input_file_line')[i]))
       => /\ pc' = "error"
          /\ lines' = lines
      ]_vars

====
